---- MODULE Spec2Model ----
(***************************************************************************)
(* Update checker of the style manager (background/update.js):             *)
(* checkStyle / checkAllStyles, the reconciliation chain, the failure      *)
(* report with its 503 retry, and the rolling update log.                  *)
(***************************************************************************)
EXTENDS Integers, Sequences, FiniteSets, TLC

\* ------------------------------------------------------------------ bounds
\* code sections are abstracted to normal forms 1..MaxSection
MaxSection == 2
\* styles in the store of a checkAllStyles run
NumStyles == 2
\* entries waiting in logQueue, storage reads in flight, clock steps, and
\* calls of log() with a text / with an empty text
MaxQueue == 2
MaxReads == 2
MaxTicks == 1
MaxLogged == 4
MaxBlanks == 1
\* texts logged beyond the cap of the log when the log is filled
MaxExtra == 2
\* calls of checkAllStyles, one after the other, when the scheduler is run
MaxCalls == 2

\* ------------------------------------------------------- program constants
Md5Len == 32
LogCap == 1000
LogDelay == 1000
LogStampGap == 11000

\* ------------------------------------------------------------------ STATES
UPDATED == "updated"
SKIPPED == "skipped"
EDITED == "locally edited"
MAYBE_EDITED == "may be locally edited"
SAME_MD5 == "up-to-date: MD5 is unchanged"
SAME_CODE == "up-to-date: code sections are unchanged"
SAME_VERSION == "up-to-date: version is unchanged"
ERROR_MD5 == "error: MD5 is invalid"
ERROR_JSON == "error: JSON is invalid"
ERROR_VERSION == "error: version is older than installed style"

\* ------------------------------------------------------------ value spaces
Sections == 1..MaxSection
Names == {"A", "B"}
Versions == {<<0, 9, 0>>, <<1, 0, 0>>, <<1, 1, 0>>}
NoVersion == <<0, 0, 0>>
Md5A == "0123456789abcdef0123456789abcdef"
Md5B == "fedcba9876543210fedcba9876543210"
\* what the server may answer at md5Url: nothing, a short text, a 32-char hash
Md5Texts == {"", "not found", Md5A, Md5B}
NoDigest == ""

\* a value rejected by a promise: a transport status (a number) or a reason
\* (a STATES string, or the message of a thrown fault)
Status(n) == [status |-> n, reason |-> ""]
Reason(s) == [status |-> -1, reason |-> s]
NoError == Reason("")
TypeErrorNull == Reason("TypeError: Cannot read property of null")
TypeErrorGet == Reason("TypeError: retrying.get is not a function")
BuildError == Reason("Error: invalid usercss")
StoreError == Reason("Error: store rejected")
FailStatuses == {0, 503, 404}

\* ---------------------------------------------------------------- remote
\* The resource served at updateUrl.  fmt tells what the text is: a JSON
\* text, a usercss source, or neither.  For a JSON text val is the kind of
\* value it parses to and the other fields are the fields of that object;
\* for a usercss source version/code are its metadata and compiled sections
\* and ws tells two texts with the same sections apart.
Resource(fmt, val, ud, ver, secs, code, ws, hasName, name, hasMd5, md5, hasEnabled) ==
  [fmt |-> fmt, val |-> val, usercssData |-> ud, version |-> ver, secs |-> secs,
   code |-> code, ws |-> ws, hasName |-> hasName, name |-> name,
   hasMd5 |-> hasMd5, originalMd5 |-> md5, hasEnabled |-> hasEnabled]

NoText == Resource("none", "", FALSE, NoVersion, "none", 0, 0, FALSE, "", FALSE, "", FALSE)
Garbage == Resource("garbage", "", FALSE, NoVersion, "none", 0, 0, FALSE, "", FALSE, "", FALSE)

JsonValue(val) == Resource("json", val, FALSE, NoVersion, "none", 0, 0, FALSE, "", FALSE, "", FALSE)
JsonObject(ud, secs, code, name, md5) ==
  Resource("json", "object", ud, IF ud THEN <<1, 1, 0>> ELSE NoVersion, secs, code, 0,
           TRUE, name, TRUE, md5, TRUE)
CssText(ver, code, ws, name) ==
  Resource("css", "", TRUE, ver, "ok", code, ws, TRUE, name, FALSE, "", FALSE)

JsonDocs ==
  {JsonValue("null"), JsonValue("prim")}
  \cup {JsonObject(ud, secs, 0, "A", Md5A) :
          ud \in BOOLEAN, secs \in {"none", "empty", "nullfirst", "nonstring"}}
  \cup {JsonObject(ud, "ok", c, n, m) :
          ud \in {FALSE}, c \in Sections, n \in Names, m \in {Md5A, Md5B}}
  \cup {JsonObject(TRUE, "ok", c, "A", Md5A) : c \in Sections}
CssTexts ==
  {CssText(v, c, w, n) : v \in Versions, c \in Sections, w \in 0..1, n \in {"A"}}

\* ------------------------------------------------------------ local style
Style(id, url, ud, ver, code, src, digest, md5, name, oname, enabled) ==
  [id |-> id, updateUrl |-> url, usercssData |-> ud, version |-> ver,
   sections |-> code, sourceCode |-> src, originalDigest |-> digest,
   originalMd5 |-> md5, name |-> name, originalName |-> oname, enabled |-> enabled]

\* calcStyleDigest: a hash of the code sections only (not of the metadata)
calcStyleDigest(style) == "sha1-" \o ToString(style.sections)

\* getStyleWithNoCode: the style with its code removed
getStyleWithNoCode(style) == [style EXCEPT !.sections = 0, !.sourceCode = NoText]

\* semverCompare: the difference of the first differing component
semverCompare(a, b) ==
  IF a[1] # b[1] THEN a[1] - b[1]
  ELSE IF a[2] # b[2] THEN a[2] - b[2]
  ELSE a[3] - b[3]

Sign(n) == IF n > 0 THEN 1 ELSE IF n < 0 THEN -1 ELSE 0

\* ------------------------------------------------------ candidate document
\* the value handed along the promise chain to maybeSave: kind is the kind
\* of JavaScript value; an object carries the fields below
Candidate(kind, text) ==
  [kind |-> kind, usercssData |-> text.usercssData, version |-> text.version,
   sourceCode |-> IF text.fmt = "css" THEN text ELSE NoText,
   secs |-> text.secs, code |-> text.code,
   hasName |-> text.hasName, name |-> text.name,
   hasMd5 |-> text.hasMd5, originalMd5 |-> text.originalMd5,
   hasEnabled |-> text.hasEnabled,
   id |-> 0, updateDate |-> 0, reason |-> "",
   hasOriginalName |-> FALSE, originalName |-> ""]

Undefined == Candidate("undefined", NoText)
EmptyObject == Candidate("object", NoText)

\* tryJSONparse: the parsed value, or undefined when the text is no JSON
tryJSONparse(text) ==
  IF text.fmt = "json" THEN Candidate(text.val, text) ELSE Undefined

\* usercss.buildMeta: the metadata of a usercss source (the sections are not
\* built yet); throws on a text that is no usercss source
buildMetaThrows(text) == text.fmt # "css"
buildMeta(text) == [Candidate("object", text) EXCEPT !.secs = "none", !.code = 0]

\* usercss.buildCode: compiles the source kept in the metadata
buildCode(json) == [json EXCEPT !.secs = "ok", !.code = json.sourceCode.code]

\* styleSectionsEqual({sections: a}, {sections: b}): undefined (falsy) when
\* either has no sections, else structural equality
styleSectionsEqual(json, style) ==
  /\ json.secs = "ok"
  /\ json.code = style.sections

\* ------------------------------------------------------------- checkStyle
\* styleJSONseemsValid: "true", "false", or "throw" when sections[0] is null
styleJSONseemsValid(json) ==
  IF json.kind # "object" THEN "false"
  ELSE IF json.secs \in {"none", "empty"} THEN "false"
  ELSE IF json.secs = "nullfirst" THEN "throw"
  ELSE IF json.secs = "ok" THEN "true"
  ELSE "false"

\* a checkIfEdited whose comparison is inverted
checkIfEdited_Inverted(style, digest) ==
  style.originalDigest # NoDigest /\ style.originalDigest = digest

\* checkIfEdited(digest): TRUE when it rejects with EDITED
checkIfEdited(style, digest) ==
  style.originalDigest # NoDigest /\ style.originalDigest # digest

\* the steps of the chain that run only when ignoreDigest is falsy
\* (calcStyleDigest, then checkIfEdited): TRUE when the chain rejects EDITED
EditGuard(style, ignoreDigest) ==
  ~ignoreDigest /\ checkIfEdited(style, calcStyleDigest(style))

\* a maybeUpdateUSO that never short-circuits on an unchanged MD5
Md5Check_NoShortCircuit(md5, style, ignoreDigest) ==
  IF md5 = "" \/ Len(md5) # Md5Len THEN ERROR_MD5 ELSE ""

\* maybeUpdateUSO, after download(md5Url): the rejection reason, or "" when
\* it goes on to download(updateUrl)
Md5Check(md5, style, ignoreDigest) ==
  IF md5 = "" \/ Len(md5) # Md5Len THEN ERROR_MD5
  ELSE IF md5 = style.originalMd5 /\ style.originalDigest # NoDigest /\ ~ignoreDigest
    THEN SAME_MD5
  ELSE ""

\* a maybeUpdateUsercss that lets an equal version through to the text test
VersionCheck_ReinstallSame(text, json, style, ignoreDigest) ==
  LET s == Sign(semverCompare(style.version, json.version)) IN
  IF s = 0 THEN (IF text = style.sourceCode THEN SAME_CODE ELSE "")
  ELSE IF s = 1 THEN ERROR_VERSION
  ELSE ""

\* a maybeUpdateUsercss that compares the versions the wrong way round
VersionCheck_Swapped(text, json, style, ignoreDigest) ==
  LET s == Sign(semverCompare(json.version, style.version)) IN
  IF s = 0 THEN
    IF ~ignoreDigest THEN SAME_VERSION
    ELSE IF text = style.sourceCode THEN SAME_CODE
    ELSE ""
  ELSE IF s = 1 THEN ERROR_VERSION
  ELSE ""

\* maybeUpdateUsercss, after buildMeta: the rejection reason, or "" when it
\* goes on to usercss.buildCode(json)
VersionCheck(text, json, style, ignoreDigest) ==
  LET s == Sign(semverCompare(style.version, json.version)) IN
  IF s = 0 THEN
    IF ~ignoreDigest THEN SAME_VERSION
    ELSE IF text = style.sourceCode THEN SAME_CODE
    ELSE ""
  ELSE IF s = 1 THEN ERROR_VERSION
  ELSE ""

\* a stamp that keeps the enabled field of the candidate
Stamp_KeepsEnabled(json, style, date) ==
  LET j == [json EXCEPT !.id = style.id, !.updateDate = date,
                        !.reason = "update"]
  IN IF style.originalName # style.name /\ style.name # j.name
       THEN [j EXCEPT !.hasName = FALSE, !.name = ""]
       ELSE [j EXCEPT !.hasOriginalName = j.hasName, !.originalName = j.name]

\* maybeSave, lines 170-182: the candidate stamped with the local id, the
\* date and the reason, without enabled, and with the name rule applied
Stamp(json, style, date) ==
  LET j == [json EXCEPT !.id = style.id, !.updateDate = date,
                        !.reason = "update", !.hasEnabled = FALSE]
  IN IF style.originalName # style.name /\ style.name # j.name
       THEN [j EXCEPT !.hasName = FALSE, !.name = ""]
       ELSE [j EXCEPT !.hasOriginalName = j.hasName, !.originalName = j.name]

\* a maybeSave without the test of styleSectionsEqual
maybeSave_NoSameCode(json0, style, save, ignoreDigest, date) ==
  LET json == IF json0.kind = "undefined" THEN EmptyObject ELSE json0
      valid == styleJSONseemsValid(json)
      j == Stamp(json, style, date)
      out(act, err, doc, method) ==
        [act |-> act, error |-> err, json |-> doc, method |-> method]
  IN IF json.kind = "null" THEN out("throw", TypeErrorNull, json, "")
     ELSE IF ~json.usercssData /\ valid = "throw"
       THEN out("throw", TypeErrorNull, json, "")
     ELSE IF ~json.usercssData /\ valid = "false"
       THEN out("reject", Reason(ERROR_JSON), json, "")
     ELSE IF style.originalDigest = NoDigest /\ ~ignoreDigest
       THEN out("reject", Reason(MAYBE_EDITED), j, "")
     ELSE IF save
       THEN out("save", NoError, j, IF j.usercssData THEN "saveUsercss" ELSE "saveStyle")
     ELSE out("return", NoError, j, "")

\* a maybeSave that tests the missing digest before the equal sections
maybeSave_GuardFirst(json0, style, save, ignoreDigest, date) ==
  LET json == IF json0.kind = "undefined" THEN EmptyObject ELSE json0
      valid == styleJSONseemsValid(json)
      j == Stamp(json, style, date)
      out(act, err, doc, method) ==
        [act |-> act, error |-> err, json |-> doc, method |-> method]
  IN IF json.kind = "null" THEN out("throw", TypeErrorNull, json, "")
     ELSE IF ~json.usercssData /\ valid = "throw"
       THEN out("throw", TypeErrorNull, json, "")
     ELSE IF ~json.usercssData /\ valid = "false"
       THEN out("reject", Reason(ERROR_JSON), json, "")
     ELSE IF style.originalDigest = NoDigest /\ ~ignoreDigest
       THEN out("reject", Reason(MAYBE_EDITED), j, "")
     ELSE IF styleSectionsEqual(j, style)
       THEN out("digest", Reason(SAME_CODE), [j EXCEPT !.reason = "update-digest"], "saveStyle")
     ELSE IF save
       THEN out("save", NoError, j, IF j.usercssData THEN "saveUsercss" ELSE "saveStyle")
     ELSE out("return", NoError, j, "")

\* a maybeSave that saves whatever the value of save
maybeSave_IgnoresSave(json0, style, save, ignoreDigest, date) ==
  LET json == IF json0.kind = "undefined" THEN EmptyObject ELSE json0
      valid == styleJSONseemsValid(json)
      j == Stamp(json, style, date)
      out(act, err, doc, method) ==
        [act |-> act, error |-> err, json |-> doc, method |-> method]
  IN IF json.kind = "null" THEN out("throw", TypeErrorNull, json, "")
     ELSE IF ~json.usercssData /\ valid = "throw"
       THEN out("throw", TypeErrorNull, json, "")
     ELSE IF ~json.usercssData /\ valid = "false"
       THEN out("reject", Reason(ERROR_JSON), json, "")
     ELSE IF styleSectionsEqual(j, style)
       THEN out("digest", Reason(SAME_CODE), [j EXCEPT !.reason = "update-digest"], "saveStyle")
     ELSE IF style.originalDigest = NoDigest /\ ~ignoreDigest
       THEN out("reject", Reason(MAYBE_EDITED), j, "")
     ELSE IF TRUE
       THEN out("save", NoError, j, IF j.usercssData THEN "saveUsercss" ELSE "saveStyle")
     ELSE out("return", NoError, j, "")

\* maybeSave(json = {}): what it does with the candidate
\*   act "throw"  : a fault is thrown (error)
\*   act "reject" : Promise.reject(error), nothing written
\*   act "digest" : saveStyle(json, reason 'update-digest'), then reject SAME_CODE
\*   act "save"   : API_METHODS[method](json)
\*   act "return" : the unsaved candidate is the result
maybeSave(json0, style, save, ignoreDigest, date) ==
  LET json == IF json0.kind = "undefined" THEN EmptyObject ELSE json0
      valid == styleJSONseemsValid(json)
      j == Stamp(json, style, date)
      out(act, err, doc, method) ==
        [act |-> act, error |-> err, json |-> doc, method |-> method]
  IN IF json.kind = "null" THEN out("throw", TypeErrorNull, json, "")
     ELSE IF ~json.usercssData /\ valid = "throw"
       THEN out("throw", TypeErrorNull, json, "")
     ELSE IF ~json.usercssData /\ valid = "false"
       THEN out("reject", Reason(ERROR_JSON), json, "")
     ELSE IF styleSectionsEqual(j, style)
       THEN out("digest", Reason(SAME_CODE), [j EXCEPT !.reason = "update-digest"], "saveStyle")
     ELSE IF style.originalDigest = NoDigest /\ ~ignoreDigest
       THEN out("reject", Reason(MAYBE_EDITED), j, "")
     ELSE IF save
       THEN out("save", NoError, j, IF j.usercssData THEN "saveUsercss" ELSE "saveStyle")
     ELSE out("return", NoError, j, "")

\* ------------------------------------------------------------------ store
\* saveStyle / saveUsercss: the stored style after the document is written:
\* the fields the document carries replace the stored ones, enabled is kept
\* when the document has none, and the original digest is recalculated from
\* the resulting code
StoreWrite(stored, doc) ==
  LET merged ==
        [stored EXCEPT
           !.usercssData = stored.usercssData \/ doc.usercssData,
           !.version = IF doc.usercssData THEN doc.version ELSE stored.version,
           !.sourceCode = IF doc.sourceCode # NoText THEN doc.sourceCode
                          ELSE stored.sourceCode,
           !.sections = IF doc.secs = "ok" THEN doc.code ELSE stored.sections,
           !.name = IF doc.hasName THEN doc.name ELSE stored.name,
           !.originalName = IF doc.hasOriginalName /\ doc.originalName # ""
                            THEN doc.originalName ELSE stored.originalName,
           !.originalMd5 = IF doc.hasMd5 THEN doc.originalMd5 ELSE stored.originalMd5]
  IN [merged EXCEPT !.originalDigest = calcStyleDigest(merged)]

\* ------------------------------------------------------------------ state
VARIABLES
  styles,         \* the store (getStyles / cachedStyles): id -> style
  remote,         \* what the server serves for each style: md5Url, updateUrl
  run,            \* id -> the checkStyle call running for that style
  retrying,       \* the Set of retried ids
  checkingAll,    \* let checkingAll
  all,            \* the checkAllStyles call: its arguments and its promise
  port,           \* the 'updater' port: messages posted, connected
  logQueue,       \* let logQueue
  logLastWriteTime,
  storage,        \* chrome.storage.local: the keys it holds and updateLog
  reads,          \* chrome.storage.local.get calls whose callback is pending
  timers,         \* debounce: the pending timeouts, in the order they were set
  lastUpdateTime,
  updateInterval, \* prefs.get('updateInterval'), hours
  now,            \* Date.now()
  logged,         \* history: number of non-empty texts given to log()
  blanks,         \* history: number of empty texts given to log()
  flushed         \* history: number of lines written to the log so far

vars == <<styles, remote, run, retrying, checkingAll, all, port, logQueue,
          logLastWriteTime, storage, reads, timers, lastUpdateTime,
          updateInterval, now, logged, blanks, flushed>>


\* ------------------------------------------------------------ log entries
LogText(state, err, id, name) == [state |-> state, error |-> err, id |-> id, name |-> name]
BlankText == LogText("", NoError, 0, "")

\* --------------------------------------------------------------- debounce
\* a pending timeout: the function it will call, its delay, and the value
\* of Date.now() when it was set
Timeout(fn, delay, date) == [fn |-> fn, delay |-> delay, at |-> date]
Pending(t, fn) == SelectSeq(t, LAMBDA x : x.fn = fn)

\* debounce.unregister(fn): the timeout of fn is cleared
unregister(t, fn) == SelectSeq(t, LAMBDA x : x.fn # fn)

\* a debounce that sets a timeout without clearing the pending one
debounce_NoClear(t, fn, delay, date) == Append(t, Timeout(fn, delay, date))

\* debounce(fn, delay): the pending timeout of fn is cleared, a new one set
debounce(t, fn, delay, date) == Append(unregister(t, fn), Timeout(fn, delay, date))

\* debounce.run: a timeout that fires is forgotten before fn is called
Fired(t, fn) == unregister(t, fn)

\* log(text): the queue and the debounce timers after the call
LogPush(queue, text) == Append(queue, [text |-> text, time |-> now])
LogTimer(t, text) ==
  debounce(t, "flushQueue", IF text # BlankText /\ checkingAll THEN LogDelay ELSE 0, now)

\* ------------------------------------------------------------- run records
NoResult == [kind |-> "none", error |-> NoError]
IdleRun(style) ==
  [pc |-> "idle", seq |-> "none", style |-> style, save |-> TRUE,
   ignoreDigest |-> FALSE, port |-> FALSE, json |-> Undefined, method |-> "",
   downloads |-> <<>>, gotMd5 |-> FALSE, gotBody |-> FALSE, failures |-> <<>>,
   writes |-> <<>>, logged |-> 0, posted |-> 0, retries |-> 0,
   result |-> NoResult, prev |-> NoResult, prevSave |-> FALSE]

Message(type, id, err) == [type |-> type, id |-> id, error |-> err]

\* reportSuccess / the logging branch of reportFailure: one log line, one
\* result, one message on the port when there is one
Report(i, r, kind, err) ==
  LET text == LogText(IF kind = "updated" THEN UPDATED ELSE SKIPPED, err,
                      r.style.id, r.style.name)
  IN /\ run' = [run EXCEPT ![i] =
                  [r EXCEPT !.pc = "done", !.result = [kind |-> kind, error |-> err],
                            !.logged = @ + 1,
                            !.posted = @ + (IF r.port THEN 1 ELSE 0)]]
     /\ logQueue' = LogPush(logQueue, text)
     /\ timers' = LogTimer(timers, text)
     /\ port' = IF r.port
                  THEN [port EXCEPT !.msgs = Append(@, Message(kind, r.style.id, err))]
                  ELSE port

reportSuccess(i, r) == Report(i, r, "updated", NoError)

\* reportFailure(error): retrying is a Set and has no get method, so the
\* test of line 106 throws as soon as its left operand (error === 503) is
\* true: the promise of checkStyle is rejected with that TypeError and
\* lines 107-112 are never reached
reportFailure(i, r, error) ==
  IF error.status = 503
    THEN /\ run' = [run EXCEPT ![i] =
                      [r EXCEPT !.pc = "rejected",
                                !.result = [kind |-> "fault", error |-> TypeErrorGet]]]
         /\ UNCHANGED <<logQueue, timers, port>>
    ELSE Report(i, r, "error",
                IF error.status = 0 THEN Reason("server unreachable") ELSE error)

\* maybeSave and what follows it in the chain
Save(i, r, json0) ==
  LET m == maybeSave(json0, r.style, r.save, r.ignoreDigest, now)
      w == [r EXCEPT !.writes = Append(@, [method |-> m.method, doc |-> m.json])]
  IN CASE m.act = "throw" ->
            /\ reportFailure(i, r, m.error)
            /\ UNCHANGED styles
       [] m.act = "reject" ->
            /\ reportFailure(i, r, m.error)
            /\ UNCHANGED styles
       [] m.act = "digest" ->
            /\ styles' = [styles EXCEPT ![i] = StoreWrite(@, m.json)]
            /\ reportFailure(i, w, m.error)
       [] m.act = "save" ->
            /\ run' = [run EXCEPT ![i] =
                         [w EXCEPT !.pc = "saving", !.json = m.json, !.method = m.method]]
            /\ UNCHANGED <<styles, logQueue, timers, port>>
       [] m.act = "return" ->
            /\ reportSuccess(i, [r EXCEPT !.json = m.json])
            /\ UNCHANGED styles

\* ---------------------------------------------------------------- actions
LogState == <<logLastWriteTime, storage, reads, now, logged, blanks, flushed>>
Others == <<retrying, checkingAll, all, lastUpdateTime, updateInterval, LogState>>

\* checkStyle({id, port, save, ignoreDigest}): the style is looked up and the
\* promise chain is created.  A second call is a re-check of a style that
\* the first call updated.
CheckStyle(i, save, ignoreDigest, withPort) ==
  /\ \/ run[i].pc = "idle"
     \/ run[i].pc = "done" /\ run[i].seq = "first" /\ run[i].result.kind = "updated"
  /\ run' = [run EXCEPT ![i] =
               [IdleRun(styles[i]) EXCEPT
                  !.pc = "start",
                  !.seq = IF run[i].pc = "idle" THEN "first" ELSE "second",
                  !.save = save, !.ignoreDigest = ignoreDigest, !.port = withPort,
                  !.prev = run[i].result, !.prevSave = run[i].save]]
  /\ UNCHANGED <<styles, remote, port, logQueue, timers>>
  /\ UNCHANGED Others

\* calcStyleDigest, checkIfEdited, then the first download of
\* maybeUpdateUSO / maybeUpdateUsercss
ChainStart(i) ==
  LET r == run[i] IN
  /\ r.pc = "start"
  /\ IF EditGuard(r.style, r.ignoreDigest)
       THEN reportFailure(i, r, Reason(EDITED))
       ELSE /\ run' = [run EXCEPT ![i] =
                         IF r.style.usercssData
                           THEN [r EXCEPT !.pc = "src", !.downloads = Append(@, "updateUrl")]
                           ELSE [r EXCEPT !.pc = "md5", !.downloads = Append(@, "md5Url")]]
            /\ UNCHANGED <<logQueue, timers, port>>
  /\ UNCHANGED <<styles, remote>>
  /\ UNCHANGED Others

\* download(style.md5Url) resolved
Md5Loaded(i) ==
  LET r == [run[i] EXCEPT !.gotMd5 = TRUE]
      why == Md5Check(remote[i].md5, r.style, r.ignoreDigest)
  IN /\ r.pc = "md5"
     /\ IF why # ""
          THEN reportFailure(i, r, Reason(why))
          ELSE /\ run' = [run EXCEPT ![i] =
                            [r EXCEPT !.pc = "doc", !.downloads = Append(@, "updateUrl")]]
               /\ UNCHANGED <<logQueue, timers, port>>
     /\ UNCHANGED <<styles, remote>>
     /\ UNCHANGED Others

\* download(style.updateUrl, {body: null}) resolved: tryJSONparse, maybeSave
DocLoaded(i) ==
  /\ run[i].pc = "doc"
  /\ Save(i, [run[i] EXCEPT !.gotBody = TRUE], tryJSONparse(remote[i].body))
  /\ UNCHANGED remote
  /\ UNCHANGED Others

\* download(style.updateUrl) resolved on the usercss path
SourceLoaded(i) ==
  LET r == [run[i] EXCEPT !.gotBody = TRUE]
      text == remote[i].body
      json == buildMeta(text)
      why == VersionCheck(text, json, r.style, r.ignoreDigest)
  IN /\ r.pc = "src"
     /\ IF buildMetaThrows(text)
          THEN reportFailure(i, r, BuildError) /\ UNCHANGED styles
          ELSE IF why # ""
            THEN reportFailure(i, r, Reason(why)) /\ UNCHANGED styles
            ELSE Save(i, r, buildCode(json))
     /\ UNCHANGED remote
     /\ UNCHANGED Others

\* a download rejected with a transport status
DownloadFailed(i, status) ==
  /\ run[i].pc \in {"md5", "doc", "src"}
  /\ reportFailure(i, [run[i] EXCEPT !.failures = Append(@, status)], Status(status))
  /\ UNCHANGED <<styles, remote>>
  /\ UNCHANGED Others

\* API_METHODS.saveStyle / saveUsercss resolved with the saved style
SaveDone(i) ==
  /\ run[i].pc = "saving"
  /\ styles' = [styles EXCEPT ![i] = StoreWrite(@, run[i].json)]
  /\ reportSuccess(i, run[i])
  /\ UNCHANGED remote
  /\ UNCHANGED Others

\* the store rejected the save
SaveFailed(i) ==
  /\ run[i].pc = "saving"
  /\ reportFailure(i, run[i], StoreError)
  /\ UNCHANGED <<styles, remote>>
  /\ UNCHANGED Others

\* ---------------------------------------------------------- checkAllStyles
\* auto: the call was made by the debounce timer; calls: the calls so far
NoCall == [pc |-> "idle", save |-> TRUE, ignoreDigest |-> FALSE, observe |-> FALSE,
           auto |-> FALSE, calls |-> 0, checked |-> {}]

Max(a, b) == IF a > b THEN a ELSE b

Hour == 60 * 60 * 1000

\* a schedule that leaves the pending trigger alone when the interval is 0
schedule_KeepsPending(t, hours, date, last) ==
  LET interval == hours * Hour
      elapsed == Max(0, date - last)
  IN IF interval # 0
       THEN debounce(t, "checkAllStyles", Max(10000, interval - elapsed), date)
       ELSE t

\* a schedule without the floor of ten seconds
schedule_NoFloor(t, hours, date, last) ==
  LET interval == hours * Hour
      elapsed == Max(0, date - last)
  IN IF interval # 0
       THEN debounce(t, "checkAllStyles", interval - elapsed, date)
       ELSE unregister(t, "checkAllStyles")

\* schedule(): the timers after it ran with the preference at hours, the
\* clock at date and lastUpdateTime at last
schedule(t, hours, date, last) ==
  LET interval == hours * Hour
      elapsed == Max(0, date - last)
  IN IF interval # 0
       THEN debounce(t, "checkAllStyles", Max(10000, interval - elapsed), date)
       ELSE unregister(t, "checkAllStyles")

\* checkAllStyles({save, ignoreDigest, observe}), up to getStyles({}):
\* resetInterval (lastUpdateTime, schedule), the flags, the port
StartAll(save, ignoreDigest, observe, auto) ==
  /\ lastUpdateTime' = now
  /\ timers' = schedule(IF auto THEN Fired(timers, "checkAllStyles") ELSE timers,
                        updateInterval, now, now)
  /\ checkingAll' = TRUE
  /\ retrying' = {}
  /\ port' = [msgs |-> <<>>, connected |-> TRUE]
  /\ all' = [NoCall EXCEPT !.pc = "getStyles", !.save = save,
                           !.ignoreDigest = ignoreDigest, !.observe = observe,
                           !.auto = auto, !.calls = all.calls + 1]
  /\ UNCHANGED <<styles, remote, run, logQueue, updateInterval, LogState>>

\* a call of API_METHODS.updateCheckAll
CheckAllStyles(save, ignoreDigest, observe) ==
  /\ all.pc = "idle"
  /\ StartAll(save, ignoreDigest, observe, FALSE)

\* the callback of getStyles({}): filter, count, two log lines, and one
\* checkStyle({style, port, save, ignoreDigest}) per style with an updateUrl
StylesLoaded ==
  LET checked == {i \in DOMAIN styles : styles[i].updateUrl}
      header == LogText(IF all.save THEN "Scheduled" ELSE "Manual", NoError,
                        Cardinality(checked), "")
  IN /\ all.pc = "getStyles"
     /\ all' = [all EXCEPT !.pc = "running", !.checked = checked]
     /\ port' = IF all.observe
                  THEN [port EXCEPT !.msgs = Append(@, Message("count", Cardinality(checked), NoError))]
                  ELSE port
     /\ logQueue' = LogPush(LogPush(logQueue, BlankText), header)
     /\ timers' = LogTimer(LogTimer(timers, BlankText), header)
     /\ run' = [i \in DOMAIN run |->
                  IF i \in checked
                    THEN [IdleRun(styles[i]) EXCEPT
                            !.pc = "start", !.seq = "first", !.save = all.save,
                            !.ignoreDigest = all.ignoreDigest, !.port = all.observe]
                    ELSE run[i]]
     /\ UNCHANGED <<styles, remote, retrying, checkingAll, lastUpdateTime,
                    updateInterval, LogState>>

\* Promise.all fulfilled: the second then-callback of checkAllStyles
AllSettled ==
  /\ all.pc = "running"
  /\ \A i \in all.checked : run[i].pc = "done"
  /\ all' = [all EXCEPT !.pc = "fulfilled"]
  /\ port' = IF all.observe
               THEN [msgs |-> Append(port.msgs, Message("done", 0, NoError)),
                     connected |-> FALSE]
               ELSE port
  /\ logQueue' = LogPush(logQueue, BlankText)
  /\ timers' = LogTimer(timers, BlankText)
  /\ checkingAll' = FALSE
  /\ retrying' = {}
  /\ UNCHANGED <<styles, remote, run, lastUpdateTime, updateInterval, LogState>>

\* Promise.all rejected by the first rejected checkStyle promise: the
\* then-callback is skipped and the promise of checkAllStyles is rejected
AllRejected ==
  /\ all.pc = "running"
  /\ \E i \in all.checked : run[i].pc = "rejected"
  /\ all' = [all EXCEPT !.pc = "rejected"]
  /\ UNCHANGED <<styles, remote, run, retrying, checkingAll, port, logQueue, timers,
                 lastUpdateTime, updateInterval, LogState>>

\* ------------------------------------------------------------------- Init
Digests == {NoDigest} \cup {"sha1-" \o ToString(c) : c \in Sections}

LegacyStyles(id) ==
  {Style(id, TRUE, FALSE, NoVersion, c, NoText, d, m, n, "A", FALSE) :
     c \in Sections, d \in Digests, m \in {Md5A, Md5B}, n \in Names}
UsercssStyles(id) ==
  {Style(id, TRUE, TRUE, t.version, t.code, t, d, "", n, "A", FALSE) :
     t \in {x \in CssTexts : x.ws = 0}, d \in Digests, n \in Names}

LegacyRemotes == [md5 : Md5Texts, body : JsonDocs \cup {Garbage}]
UsercssRemotes == [md5 : {""}, body : CssTexts \cup {Garbage}]

\* lines 27-31, and a storage that holds no log yet
InitIdle ==
  /\ retrying = {}
  /\ checkingAll = FALSE
  /\ all = NoCall
  /\ port = [msgs |-> <<>>, connected |-> TRUE]
  /\ logQueue = <<>>
  /\ logLastWriteTime = 0
  /\ storage = [keys |-> {}, updateLog |-> <<>>]
  /\ reads = 0
  /\ logged = 0
  /\ blanks = 0
  /\ flushed = 0

\* a first start: localStorage holds no lastUpdateTime; schedule() of line 38
InitRest ==
  /\ InitIdle
  /\ now = 20000
  /\ lastUpdateTime = now
  /\ updateInterval \in {0, 24}
  /\ timers = schedule(<<>>, updateInterval, now, lastUpdateTime)

Init ==
  /\ updateInterval = 24
  /\ \E s \in LegacyStyles(1) \cup UsercssStyles(1) :
       /\ styles = [i \in {1} |-> s]
       /\ run = [i \in {1} |-> IdleRun(s)]
       /\ \E rem \in IF s.usercssData THEN UsercssRemotes ELSE LegacyRemotes :
            remote = [i \in {1} |-> rem]
  /\ InitRest

Next ==
  \/ \E i \in DOMAIN run, save \in BOOLEAN, ignoreDigest \in BOOLEAN, withPort \in BOOLEAN :
       CheckStyle(i, save, ignoreDigest, withPort)
  \/ \E i \in DOMAIN run : ChainStart(i)
  \/ \E i \in DOMAIN run : Md5Loaded(i)
  \/ \E i \in DOMAIN run : DocLoaded(i)
  \/ \E i \in DOMAIN run : SourceLoaded(i)
  \/ \E i \in DOMAIN run, status \in FailStatuses : DownloadFailed(i, status)
  \/ \E i \in DOMAIN run : SaveDone(i)
  \/ \E i \in DOMAIN run : SaveFailed(i)

Spec == Init /\ [][Next]_vars

\* ------------------------------------------- a checkAllStyles run (SpecAll)
Unchecked(id) == Style(id, FALSE, FALSE, NoVersion, 1, NoText, NoDigest, "", "A", "A", TRUE)
Outdated(id) == Style(id, TRUE, FALSE, NoVersion, 1, NoText, "sha1-1", Md5A, "A", "A", TRUE)
OutdatedCss(id) ==
  Style(id, TRUE, TRUE, <<1, 0, 0>>, 1, CssText(<<1, 0, 0>>, 1, 0, "A"), "sha1-1", "",
        "A", "A", TRUE)
\* the population of the store: a style without updateUrl, a legacy style and
\* a usercss style for which the server has a newer revision
Population(id) ==
  {[style |-> Unchecked(id), remote |-> [md5 |-> "", body |-> Garbage]],
   [style |-> Outdated(id),
    remote |-> [md5 |-> Md5B, body |-> JsonObject(FALSE, "ok", MaxSection, "A", Md5B)]],
   [style |-> OutdatedCss(id),
    remote |-> [md5 |-> "", body |-> CssText(<<1, 1, 0>>, MaxSection, 0, "A")]]}

InitAll ==
  /\ \E pop \in [1..NumStyles -> UNION {Population(i) : i \in 1..NumStyles}] :
       /\ \A i \in 1..NumStyles : pop[i] \in Population(i)
       /\ styles = [i \in 1..NumStyles |-> pop[i].style]
       /\ remote = [i \in 1..NumStyles |-> pop[i].remote]
       /\ run = [i \in 1..NumStyles |-> IdleRun(pop[i].style)]
  /\ InitRest

NextAll ==
  \/ \E save \in BOOLEAN, ignoreDigest \in BOOLEAN, observe \in BOOLEAN :
       CheckAllStyles(save, ignoreDigest, observe)
  \/ StylesLoaded
  \/ \E i \in DOMAIN run : ChainStart(i)
  \/ \E i \in DOMAIN run : Md5Loaded(i)
  \/ \E i \in DOMAIN run : DocLoaded(i)
  \/ \E i \in DOMAIN run : SourceLoaded(i)
  \/ \E i \in DOMAIN run, status \in FailStatuses : DownloadFailed(i, status)
  \/ \E i \in DOMAIN run : SaveDone(i)
  \/ \E i \in DOMAIN run : SaveFailed(i)
  \/ AllSettled
  \/ AllRejected

SpecAll == InitAll /\ [][NextAll]_vars

\* -------------------------------------------------------- the update log
\* a line of the persisted log: the text, after the time prefix if any
\* (stamp -1: no prefix)
Line(stamp, text) == [stamp |-> stamp, text |-> text]
EmptyLine == Line(-1, BlankText)

\* the items object chrome.storage.local.get('updateLog', cb) gives to cb:
\* the requested key, when it is stored
Items(st) == [keys |-> st.keys \cap {"updateLog"}, updateLog |-> st.updateLog]

\* stored.lines || []
StoredLines(stored) == IF "lines" \in stored.keys THEN stored.lines ELSE <<>>

\* lines.splice(0, lines.length - 1000)
Splice(lines) ==
  IF Len(lines) > LogCap THEN SubSeq(lines, Len(lines) - LogCap + 1, Len(lines))
  ELSE lines

\* flushQueue(stored), lines 233-243: the lines before the queued entries
\* are pushed, and the lines handed to chrome.storage.local.set
FlushKept(stored, queue) ==
  LET lines == StoredLines(stored)
  IN Splice(IF /\ queue[1].text = BlankText
               /\ Len(lines) > 0
               /\ lines[Len(lines)] # EmptyLine
              THEN Append(lines, EmptyLine) ELSE lines)

FlushLines(stored, queue, date, lastWrite) ==
  LET stamp == IF date - lastWrite > LogStampGap THEN queue[1].time ELSE -1
      q == IF queue[1].text = BlankText THEN Tail(queue) ELSE queue
      first == Line(stamp, IF q # <<>> THEN q[1].text ELSE BlankText)
  IN FlushKept(stored, queue) \o <<first>> \o [k \in 1..(Len(q) - 1) |-> Line(-1, q[k + 1].text)]

LogRest == <<styles, remote, run, retrying, checkingAll, all, port, lastUpdateTime,
             updateInterval>>

\* log(text) with a text, numbered by the calls so far (at most max calls)
LogLine(max) ==
  LET text == LogText("line", NoError, logged + 1, "") IN
  /\ Len(logQueue) < MaxQueue
  /\ logged < max
  /\ logQueue' = LogPush(logQueue, text)
  /\ timers' = LogTimer(timers, text)
  /\ logged' = logged + 1
  /\ UNCHANGED <<logLastWriteTime, storage, reads, now, blanks, flushed>>
  /\ UNCHANGED LogRest

\* log('')
LogBlank ==
  /\ Len(logQueue) < MaxQueue
  /\ blanks < MaxBlanks
  /\ logQueue' = LogPush(logQueue, BlankText)
  /\ timers' = LogTimer(timers, BlankText)
  /\ blanks' = blanks + 1
  /\ UNCHANGED <<logLastWriteTime, storage, reads, now, logged, flushed>>
  /\ UNCHANGED LogRest

\* the debounce timer fires: flushQueue() without argument asks the storage
FlushTimer ==
  /\ Pending(timers, "flushQueue") # <<>>
  /\ reads < MaxReads
  /\ timers' = Fired(timers, "flushQueue")
  /\ reads' = reads + 1
  /\ UNCHANGED <<logQueue, logLastWriteTime, storage, now, logged, blanks, flushed>>
  /\ UNCHANGED LogRest

\* the storage calls back: flushQueue(stored)
FlushStored ==
  LET lines == FlushLines(Items(storage), logQueue, now, logLastWriteTime) IN
  /\ reads > 0
  /\ logQueue # <<>>
  /\ reads' = reads - 1
  /\ storage' = [keys |-> storage.keys \cup {"updateLog"}, updateLog |-> lines]
  /\ logLastWriteTime' = now
  /\ logQueue' = <<>>
  /\ flushed' = flushed + Len(lines) - Len(FlushKept(Items(storage), logQueue))
  /\ UNCHANGED <<timers, now, logged, blanks>>
  /\ UNCHANGED LogRest

\* the storage calls back while logQueue is empty: logQueue[0] is undefined
\* and reading its time or text throws; nothing is written
FlushStoredEmpty ==
  /\ reads > 0
  /\ logQueue = <<>>
  /\ reads' = reads - 1
  /\ UNCHANGED <<logQueue, logLastWriteTime, storage, timers, now, logged, blanks, flushed>>
  /\ UNCHANGED LogRest

\* time passes
Tick ==
  /\ now < lastUpdateTime + MaxTicks * 12000
  /\ now' = now + 12000
  /\ UNCHANGED <<logQueue, logLastWriteTime, storage, reads, timers, logged, blanks, flushed>>
  /\ UNCHANGED LogRest

InitLog ==
  /\ styles = [i \in {1} |-> Unchecked(1)]
  /\ remote = [i \in {1} |-> [md5 |-> "", body |-> Garbage]]
  /\ run = [i \in {1} |-> IdleRun(Unchecked(1))]
  /\ InitRest

NextLog ==
  \/ LogLine(MaxLogged)
  \/ LogBlank
  \/ FlushTimer
  \/ FlushStored
  \/ FlushStoredEmpty
  \/ Tick

SpecLog == InitLog /\ [][NextLog]_vars

\* the log filled beyond its cap, at one clock value and without empty texts
NextRoll ==
  \/ LogLine(LogCap + MaxExtra)
  \/ FlushTimer
  \/ FlushStored
  \/ FlushStoredEmpty

SpecRoll == InitLog /\ [][NextRoll]_vars

\* ------------------------------------------------ the scheduler (SpecSched)
Day == 24 * Hour
StartTime == 3 * Day
\* the values Date.now() takes (the wall clock may be set back), and the
\* values of the updateInterval preference, in hours
Instants ==
  {StartTime + d : d \in {0 - Hour, 0, Hour - 5000, 2 * Day}}
Intervals == {0, 1, 24}

\* the wall clock is read at another value; a call of checkAllStyles over
\* styles that are not checked settles at the clock value it began with
ClockSet(t) ==
  /\ t # now
  /\ all.pc \notin {"getStyles", "running"}
  /\ now' = t
  /\ UNCHANGED <<logQueue, logLastWriteTime, storage, reads, timers, logged, blanks, flushed>>
  /\ UNCHANGED LogRest

\* the updateInterval preference is changed: prefs.subscribe calls schedule
PrefChanged(hours) ==
  /\ hours # updateInterval
  /\ updateInterval' = hours
  /\ timers' = schedule(timers, hours, now, lastUpdateTime)
  /\ UNCHANGED <<styles, remote, run, retrying, checkingAll, all, port, logQueue,
                 lastUpdateTime, LogState>>

\* a call of checkAllStyles once the previous call has settled
CallAll(save, ignoreDigest, observe, auto) ==
  /\ all.pc \in {"idle", "fulfilled", "rejected"}
  /\ all.calls < MaxCalls
  /\ StartAll(save, ignoreDigest, observe, auto)

\* the timeout of checkAllStyles fires: debounce.run calls checkAllStyles()
TimerFired ==
  /\ Pending(timers, "checkAllStyles") # <<>>
  /\ CallAll(TRUE, FALSE, FALSE, TRUE)

InitSched ==
  /\ styles = [i \in {1} |-> Unchecked(1)]
  /\ remote = [i \in {1} |-> [md5 |-> "", body |-> Garbage]]
  /\ run = [i \in {1} |-> IdleRun(Unchecked(1))]
  /\ InitIdle
  /\ now \in Instants
  /\ lastUpdateTime \in Instants
  /\ updateInterval \in Intervals
  /\ timers = schedule(<<>>, updateInterval, now, lastUpdateTime)

NextSched ==
  \/ \E t \in Instants : ClockSet(t)
  \/ \E hours \in Intervals : PrefChanged(hours)
  \/ TimerFired
  \/ \E save \in BOOLEAN : CallAll(save, FALSE, FALSE, FALSE)
  \/ StylesLoaded
  \/ AllSettled

SpecSched == InitSched /\ [][NextSched]_vars

\* ================================================================= claims
Finished(r) == r.pc \in {"done", "rejected"}
Started(r) == r.pc # "idle"
Skipped(r, why) == r.pc = "done" /\ r.result = [kind |-> "error", error |-> Reason(why)]
Edited(style) == style.originalDigest # NoDigest /\ style.originalDigest # calcStyleDigest(style)
\* no download of the run was rejected with a transport status
NoTransportError(r) == r.failures = <<>>
\* the text served at updateUrl is a usercss source
ServesCss(i) == remote[i].body.fmt = "css"

\* C1: a style whose originalDigest is set and differs from the digest of its
\* current code, checked with ignoreDigest=false, is never downloaded for and
\* never written, and its check ends with the reason EDITED.
C1_EditGuard ==
  \A i \in DOMAIN run :
    LET r == run[i] IN
    (Started(r) /\ ~r.ignoreDigest /\ Edited(r.style))
      => /\ r.downloads = <<>>
         /\ r.writes = <<>>
         /\ styles[i] = r.style
         /\ r.pc \in {"start", "done"}
         /\ r.pc = "done" => Skipped(r, EDITED)

C1_Witness ==
  \E i \in DOMAIN run :
    /\ ~run[i].ignoreDigest /\ Edited(run[i].style)
    /\ Skipped(run[i], EDITED)

\* C2: a legacy style with originalDigest set, checked with ignoreDigest=false,
\* whose fetched MD5 has 32 characters and equals originalMd5, ends with
\* SAME_MD5; md5Url is the only download of the run and nothing is written.
C2_SameMd5 ==
  \A i \in DOMAIN run :
    LET r == run[i] IN
    (/\ r.gotMd5 /\ ~r.style.usercssData /\ ~r.ignoreDigest
     /\ r.style.originalDigest # NoDigest
     /\ Len(remote[i].md5) = Md5Len /\ remote[i].md5 = r.style.originalMd5)
      => /\ Skipped(r, SAME_MD5)
         /\ r.downloads = <<"md5Url">>
         /\ r.writes = <<>>
         /\ styles[i] = r.style

C2_Witness ==
  \E i \in DOMAIN run :
    /\ run[i].gotMd5 /\ remote[i].md5 = run[i].style.originalMd5
    /\ Skipped(run[i], SAME_MD5)
    /\ run[i].downloads = <<"md5Url">>

\* C3 as stated: a usercss style whose version equals the version served,
\* checked with ignoreDigest=false, ends with SAME_VERSION whatever its
\* originalDigest and its code are (runs with a failed download set aside).
C3_SameVersionAlways ==
  \A i \in DOMAIN run :
    LET r == run[i] IN
    (/\ Finished(r) /\ r.style.usercssData /\ ~r.ignoreDigest /\ NoTransportError(r)
     /\ ServesCss(i) /\ remote[i].body.version = r.style.version)
      => Skipped(r, SAME_VERSION)

\* C3 amended: such a check ends with EDITED when originalDigest is set and
\* differs from the digest of the current code, and otherwise, once the
\* source is downloaded, with SAME_VERSION; nothing is written.
C3_SameVersion ==
  \A i \in DOMAIN run :
    LET r == run[i] IN
    (/\ Finished(r) /\ r.style.usercssData /\ ~r.ignoreDigest
     /\ ServesCss(i) /\ remote[i].body.version = r.style.version)
      => /\ r.writes = <<>>
         /\ Edited(r.style) => Skipped(r, EDITED)
         /\ (~Edited(r.style) /\ r.gotBody) => Skipped(r, SAME_VERSION)

C3_Witness ==
  \E i \in DOMAIN run :
    /\ run[i].style.usercssData /\ ~run[i].ignoreDigest /\ run[i].gotBody
    /\ remote[i].body.version = run[i].style.version
    /\ Skipped(run[i], SAME_VERSION)

\* C4 as stated: a usercss style whose served version is older than the local
\* one ends with ERROR_VERSION for both values of ignoreDigest, and nothing
\* is saved (runs with a failed download set aside).
C4_DowngradeAlways ==
  \A i \in DOMAIN run :
    LET r == run[i] IN
    (/\ Finished(r) /\ r.style.usercssData /\ NoTransportError(r)
     /\ ServesCss(i) /\ semverCompare(remote[i].body.version, r.style.version) < 0)
      => Skipped(r, ERROR_VERSION) /\ r.writes = <<>>

\* C4 amended: with ignoreDigest=true, and with ignoreDigest=false when the
\* edit guard does not reject first, the check ends with ERROR_VERSION once
\* the source is downloaded; an edited style checked with ignoreDigest=false
\* ends with EDITED; in every case nothing is built or saved.
C4_Downgrade ==
  \A i \in DOMAIN run :
    LET r == run[i]
        guarded == ~r.ignoreDigest /\ Edited(r.style)
    IN (/\ Finished(r) /\ r.style.usercssData
        /\ ServesCss(i) /\ semverCompare(remote[i].body.version, r.style.version) < 0)
         => /\ r.writes = <<>>
            /\ styles[i] = r.style
            /\ r.result.kind # "updated"
            /\ guarded => Skipped(r, EDITED)
            /\ (~guarded /\ r.gotBody) => Skipped(r, ERROR_VERSION)

C4_Witness ==
  \E i \in DOMAIN run :
    /\ run[i].style.usercssData /\ run[i].ignoreDigest /\ run[i].gotBody
    /\ Edited(run[i].style)
    /\ semverCompare(remote[i].body.version, run[i].style.version) < 0
    /\ Skipped(run[i], ERROR_VERSION)

\* the second of two checks with save=true, the first of which returned
\* Updated and saved the candidate; the remote is the same for both
Recheck(r) ==
  /\ r.seq = "second" /\ Finished(r)
  /\ r.prev.kind = "updated" /\ r.prevSave /\ r.save
\* the MD5 served is the originalMd5 that was saved with the document
Md5Agrees(i, r) == remote[i].md5 = r.style.originalMd5
FullSaves(r) == {k \in 1..Len(r.writes) : r.writes[k].doc.reason = "update"}

\* C5 as stated: the second check ends with SAME_MD5 (legacy) or SAME_VERSION
\* (usercss) for either value of ignoreDigest (taking only runs without a
\* failed download, whose served MD5 agrees with the saved document and
\* whose source is still a usercss text).
C5_IdempotentAlways ==
  \A i \in DOMAIN run :
    LET r == run[i] IN
    (/\ Recheck(r) /\ NoTransportError(r)
     /\ IF r.style.usercssData THEN ServesCss(i) ELSE Md5Agrees(i, r))
      => Skipped(r, IF r.style.usercssData THEN SAME_VERSION ELSE SAME_MD5)

\* C5 amended: the second check never returns Updated and makes no full save.
\* When no download fails it ends with SAME_MD5 (legacy) or SAME_VERSION
\* (usercss) only for ignoreDigest=false; with ignoreDigest=true, or when the
\* served MD5 differs from the originalMd5 saved with the document, it ends
\* with SAME_CODE; a style that the first save moved to the usercss path
\* while the server still serves a JSON text ends with the build error.
C5_Idempotent ==
  \A i \in DOMAIN run :
    LET r == run[i] IN
    Recheck(r)
      => /\ r.result.kind # "updated"
         /\ FullSaves(r) = {}
         /\ NoTransportError(r) =>
              IF r.style.usercssData
                THEN IF ~ServesCss(i) THEN r.result = [kind |-> "error", error |-> BuildError]
                     ELSE IF r.ignoreDigest THEN Skipped(r, SAME_CODE)
                     ELSE Skipped(r, SAME_VERSION)
                ELSE IF ~r.ignoreDigest /\ Md5Agrees(i, r) THEN Skipped(r, SAME_MD5)
                     ELSE Skipped(r, SAME_CODE)

C5_Witness ==
  \E i \in DOMAIN run :
    /\ Recheck(run[i]) /\ run[i].ignoreDigest /\ ~run[i].style.usercssData
    /\ Md5Agrees(i, run[i])
    /\ Skipped(run[i], SAME_CODE)

\* C6: a check whose download failed once with status 503 is run again exactly
\* once and does not end with an unhandled fault.
C6_RetryOn503 ==
  \A i \in DOMAIN run :
    run[i].failures = <<503>>
      => /\ run[i].retries = 1
         /\ run[i].pc # "rejected"
         /\ run[i].result.kind # "fault"

\* C7: every finished checkStyle call has appended exactly one log line,
\* produced exactly one result ({updated} or {error}), posted it exactly once
\* when it has a port, and its promise is not rejected.
C7_NoSilentDrop ==
  \A i \in DOMAIN run :
    LET r == run[i] IN
    Finished(r)
      => /\ r.pc = "done"
         /\ r.result.kind \in {"updated", "error"}
         /\ r.logged = 1
         /\ r.posted = (IF r.port THEN 1 ELSE 0)

\* the text served is no JSON, or parses to a value without a non-empty
\* sections array whose first entry has a string code
LacksSections(body) == body.fmt # "json" \/ body.val # "object" \/ body.secs # "ok"

\* C8: a legacy check that fetched the full document ends with ERROR_JSON and
\* writes nothing when the document is no JSON or lacks valid sections.
C8_LegacyValidation ==
  \A i \in DOMAIN run :
    LET r == run[i] IN
    (Finished(r) /\ ~r.style.usercssData /\ r.gotBody /\ LacksSections(remote[i].body))
      => Skipped(r, ERROR_JSON) /\ r.writes = <<>>

\* the result messages on the port, and the styles they are about
Results(msgs) == {k \in 1..Len(msgs) : msgs[k].type \in {"updated", "error"}}

\* C10: once the promise of checkAllStyles has settled, the port has received
\* {count: n} first, n being the number of styles with an updateUrl, then
\* exactly one result for each of them, then {done: true}, and it is
\* disconnected; styles without updateUrl are never checked.
C10_ObserverProtocol ==
  LET msgs == port.msgs
      n == Cardinality({i \in DOMAIN styles : styles[i].updateUrl})
  IN /\ \A i \in DOMAIN run : ~styles[i].updateUrl => run[i].pc = "idle"
     /\ (all.observe /\ all.pc \in {"fulfilled", "rejected"})
          => /\ Len(msgs) = n + 2
             /\ msgs[1] = Message("count", n, NoError)
             /\ msgs[Len(msgs)] = Message("done", 0, NoError)
             /\ \A i \in DOMAIN styles :
                  styles[i].updateUrl
                    => Cardinality({k \in Results(msgs) : msgs[k].id = i}) = 1
             /\ ~port.connected

\* C9: the persisted log never holds more than 1000 lines, and once more
\* than 1000 lines have been flushed it holds exactly 1000 lines, the most
\* recent ones in the order they were logged.
C9_LogRolling ==
  LET lines == storage.updateLog IN
  /\ Len(lines) <= LogCap
  /\ flushed > LogCap
       => /\ Len(lines) = LogCap
          /\ \A k \in 1..(Len(lines) - 1) :
               (lines[k].text # BlankText /\ lines[k + 1].text # BlankText)
                 => lines[k + 1].text.id = lines[k].text.id + 1
          /\ logQueue = <<>> => lines[Len(lines)].text.id = logged

\* C11: while the updateInterval preference is 0 no checkAllStyles trigger is
\* pending (schedule() at start-up, on a preference change and in
\* resetInterval has cancelled it), and no call of checkAllStyles is made by
\* the timer.
C11_IntervalZero ==
  /\ [](updateInterval = 0 => Pending(timers, "checkAllStyles") = <<>>)
  /\ [][(all' # all /\ all'.pc = "getStyles" /\ all'.auto) => updateInterval # 0]_vars

\* the timer has called checkAllStyles, which armed it again, and the
\* preference was then set to 0
C11_Witness ==
  /\ updateInterval = 0
  /\ all.auto /\ all.pc = "fulfilled"
  /\ Pending(timers, "checkAllStyles") = <<>>

\* C17: with a non-zero interval at most one checkAllStyles trigger is
\* pending, and its delay is max(10 seconds, interval minus the time elapsed
\* since lastUpdateTime when it was armed), never below 10 seconds.
C17_SchedulerFloor ==
  LET p == Pending(timers, "checkAllStyles") IN
  updateInterval # 0
    => /\ Len(p) <= 1
       /\ \A k \in 1..Len(p) :
            /\ p[k].delay >= 10000
            /\ p[k].at >= lastUpdateTime
                 => p[k].delay = Max(10000, updateInterval * Hour - (p[k].at - lastUpdateTime))
            /\ p[k].at < lastUpdateTime => p[k].delay = updateInterval * Hour

\* after a call of checkAllStyles has settled, a trigger armed again once
\* the interval has expired: the delay is the floor
C17_Witness ==
  \E k \in 1..Len(timers) :
    /\ all.pc = "fulfilled"
    /\ timers[k].fn = "checkAllStyles"
    /\ timers[k].at - lastUpdateTime > updateInterval * Hour
    /\ timers[k].delay = 10000

\* the candidate that the run hands to maybeSave, once the body is loaded:
\* on the legacy path the parsed document, on the usercss path the source
\* built after the version test let it through
Newer(i, r) == semverCompare(remote[i].body.version, r.style.version) > 0
ReachesSave(i, r) ==
  /\ r.gotBody
  /\ IF r.style.usercssData
       THEN /\ ServesCss(i)
            /\ \/ Newer(i, r)
               \/ /\ remote[i].body.version = r.style.version
                  /\ r.ignoreDigest /\ remote[i].body # r.style.sourceCode
       ELSE remote[i].body.fmt = "json" /\ remote[i].body.val = "object"
\* the candidate passes the validation of line 166
Validated(i) == remote[i].body.usercssData \/ remote[i].body.secs = "ok"
SameSections(i, r) == remote[i].body.secs = "ok" /\ remote[i].body.code = r.style.sections
DigestRefresh(r, w) ==
  w.method = "saveStyle" /\ w.doc.reason = "update-digest" /\ w.doc.id = r.style.id

\* C12: whenever maybeSave gets a validated candidate whose sections equal
\* the local ones, the run makes exactly one store write, saveStyle with
\* reason 'update-digest' and the local id, and ends with SAME_CODE, for
\* both values of save and of ignoreDigest and on both paths.
C12_DigestRefresh ==
  \A i \in DOMAIN run :
    LET r == run[i] IN
    (ReachesSave(i, r) /\ Validated(i) /\ SameSections(i, r))
      => /\ Skipped(r, SAME_CODE)
         /\ Len(r.writes) = 1
         /\ DigestRefresh(r, r.writes[1])

\* a digest refresh on the usercss path, with save=false, of a style that
\* had no originalDigest
C12_Witness ==
  \E i \in DOMAIN run :
    LET r == run[i] IN
    /\ r.style.usercssData /\ ~r.save /\ r.style.originalDigest = NoDigest
    /\ SameSections(i, r)
    /\ Skipped(r, SAME_CODE)
    /\ Len(r.writes) = 1 /\ DigestRefresh(r, r.writes[1])

\* the run has called maybeSave: on the legacy path with whatever the
\* document parsed to, on the usercss path with the built source
SaveReached(i, r) == r.gotBody /\ (r.style.usercssData => ReachesSave(i, r))
\* the candidate has a non-empty sections array whose first entry has a
\* string code (a built usercss source always has)
ValidCandidate(i, r) == IF r.style.usercssData THEN TRUE ELSE ~LacksSections(remote[i].body)
NoDigestRun(r) == Started(r) /\ r.style.originalDigest = NoDigest /\ ~r.ignoreDigest

\* C13: a style without originalDigest, checked with ignoreDigest=false, is
\* never reported Updated and no full update of it is handed to the store;
\* once maybeSave is called the run ends with ERROR_JSON when the candidate
\* is invalid, else with SAME_CODE when its sections equal the local ones,
\* else with MAYBE_EDITED and without any store write.
C13_AmbiguousEdit ==
  \A i \in DOMAIN run :
    LET r == run[i] IN
    NoDigestRun(r)
      => /\ r.result.kind # "updated"
         /\ FullSaves(r) = {}
         /\ SaveReached(i, r)
              => IF ~ValidCandidate(i, r) THEN Skipped(r, ERROR_JSON) /\ r.writes = <<>>
                 ELSE IF SameSections(i, r) THEN Skipped(r, SAME_CODE)
                 ELSE /\ Skipped(r, MAYBE_EDITED)
                      /\ r.writes = <<>>
                      /\ styles[i] = r.style

\* the outcomes after which the stored style must be as it was
Unwritten ==
  {EDITED, SAME_MD5, SAME_VERSION, ERROR_MD5, ERROR_JSON, ERROR_VERSION, MAYBE_EDITED}
FullSave(r, w) == w.doc.reason = "update" /\ r.save

\* C14: a run makes at most one store write, either the digest refresh of a
\* candidate whose sections equal the local ones or the full save of a
\* candidate with save=true; the stored style changes only when a write was
\* made; and a run that ends with EDITED, SAME_MD5, SAME_VERSION, ERROR_MD5,
\* ERROR_JSON, ERROR_VERSION or MAYBE_EDITED, or had a download fail, or
\* returned Updated with save=false, made no write and left it unchanged.
C14_WritesOnlyBySave ==
  \A i \in DOMAIN run :
    LET r == run[i] IN
    /\ Len(r.writes) <= 1
    /\ \A k \in 1..Len(r.writes) :
         \/ DigestRefresh(r, r.writes[k]) /\ SameSections(i, r)
         \/ FullSave(r, r.writes[k])
    /\ r.writes = <<>> => styles[i] = r.style
    /\ (/\ Finished(r)
        /\ \/ \E why \in Unwritten : Skipped(r, why)
           \/ r.failures # <<>>
           \/ r.result.kind = "updated" /\ ~r.save)
         => r.writes = <<>> /\ styles[i] = r.style

\* a candidate accepted with save=false: Updated, nothing written
C14_Witness ==
  \E i \in DOMAIN run :
    /\ run[i].pc = "done" /\ run[i].result.kind = "updated" /\ ~run[i].save
    /\ run[i].writes = <<>>
    /\ styles[i] = run[i].style

\* C15: every document handed to the store carries the local id and has no
\* enabled field; when the local name differs from the local originalName
\* and from the candidate's name the document has neither name nor
\* originalName, otherwise its originalName is the candidate's name.
C15_LocalStateKept ==
  \A i \in DOMAIN run :
    LET r == run[i]
        cand == remote[i].body
    IN \A k \in 1..Len(r.writes) :
         LET doc == r.writes[k].doc IN
         /\ doc.id = r.style.id
         /\ ~doc.hasEnabled
         /\ IF /\ r.style.name # r.style.originalName
               /\ ~cand.hasName \/ r.style.name # cand.name
              THEN ~doc.hasName /\ ~doc.hasOriginalName
              ELSE doc.hasOriginalName /\ doc.originalName = cand.name

\* a full save of a candidate that had an enabled field, for a style that
\* was renamed locally: the document has no name
C15_Witness ==
  \E i \in DOMAIN run :
    LET r == run[i] IN
    /\ Len(r.writes) = 1 /\ r.writes[1].doc.reason = "update"
    /\ remote[i].body.hasEnabled
    /\ r.style.name # r.style.originalName /\ r.style.name # remote[i].body.name
    /\ ~r.writes[1].doc.hasName
    /\ r.pc = "done" /\ r.result.kind = "updated"

Had503(r) == \E k \in 1..Len(r.failures) : r.failures[k] = 503

\* C16: in a checkAllStyles run every style is retried exactly once when one
\* of its own downloads failed with 503 and not at all otherwise, whatever
\* happened to the other styles; and the retrying set holds, while the run
\* is in flight, the styles that were retried.
C16_RetryPerStyle ==
  /\ \A i \in DOMAIN run : run[i].retries = (IF Had503(run[i]) THEN 1 ELSE 0)
  /\ all.pc = "running" => retrying = {i \in DOMAIN run : Had503(run[i])}

\* the lines of old that are still there after the oldest were trimmed are
\* the first lines of new
KeepsLines(old, new) ==
  \E n \in 0..Len(old) :
    /\ n > 0 => Len(new) >= LogCap
    /\ Len(new) >= Len(old) - n
    /\ \A k \in 1..(Len(old) - n) : new[k] = old[n + k]

\* C18: every flush writes the lines persisted before it, but for the oldest
\* ones trimmed by the cap, followed by the lines of the queue; the first
\* flush, against a storage without the log, writes the queue.
C18_AppendOnly ==
  [][storage' # storage
       => /\ KeepsLines(storage.updateLog, storage'.updateLog)
          /\ Len(storage'.updateLog) > Len(storage.updateLog) \/ Len(storage.updateLog) >= LogCap]_vars

\* C19: when the promise of checkAllStyles has settled, fulfilled or
\* rejected, checkingAll is false and retrying is empty; while the call is
\* in flight checkingAll is true.
C19_StateRestored ==
  /\ all.pc \in {"fulfilled", "rejected"} => ~checkingAll /\ retrying = {}
  /\ all.pc \in {"getStyles", "running"} => checkingAll

\* C20: the storage callback of flushQueue never runs while logQueue is
\* empty, and a flush writes every queued text once: the texts of the lines
\* it adds are the non-empty texts of the queue, in order.
C20_QueueSafe ==
  [][reads' < reads
       => /\ logQueue # <<>>
          /\ logQueue' = <<>>
          /\ flushed' - flushed >= Cardinality({k \in 1..Len(logQueue) : logQueue[k].text # BlankText})]_vars
====
